---- MODULE Spec2Model ----
(***************************************************************************)
(* Order lifecycle of server.js: POST /api/pay, POST /api/callback and     *)
(* GET /api/payment/status/:merchantOrderId working on the Firestore       *)
(* "orders" collection, the PhonePe client and the SendGrid mailer.        *)
(*                                                                         *)
(* Every HTTP request is one handler instance.  A handler runs without     *)
(* interruption up to an `await`; a step of the model is the code between  *)
(* two awaits together with the one store write or external call that the  *)
(* first await waits for, so handlers interleave exactly at their awaits.  *)
(***************************************************************************)
EXTENDS Integers, FiniteSets, Sequences, TLC

\* Number of HTTP requests served in one behaviour.
MaxReq == 3

Reqs == 1..MaxReq

\* Values `M-${randomUUID().slice(0, 6)}` can take (two of them).
OrderIds == {"M-a", "M-b"}

\* The ids are interchangeable names: the first id ever generated is called
\* "M-a".  A later generation can yield either id, a used one included
\* (line 143 draws 24 random bits and does not look the id up).
GeneratedIds(store) ==
    {id \in OrderIds : id = "M-a" \/ store["M-a"].exists}

\* A field that a document, a request body or a response does not carry.
Undefined == "undefined"
\* The Firestore value null.
Null == "null"

TxnIds == {"T1", "T2"}
Handles == {"H1"}
\* State strings reported by phonepeClient.getOrderStatus.
GatewayStates == {"PENDING", "COMPLETED", "FAILED"}

\* Request-body values of POST /api/pay.  amount is <<>> when the field is
\* missing and <<n>> when it is the number n.
AmountInputs == {<<>>, <<0>>, <<-1>>, <<500>>}
ProductsInputs == {Undefined, "items"}
ShippingInputs == {Undefined, "ship-email", "ship-noemail"}
UserInputs == {Undefined, "u1"}
PayBodies ==
    [amount : AmountInputs, products : ProductsInputs,
     shippingDetails : ShippingInputs, userId : UserInputs]

\* shippingDetails.email of a stored order.
Email(shippingDetails) ==
    IF shippingDetails = "ship-email" THEN "a@x" ELSE Undefined

\* JavaScript `!v` for a string-valued field and for a number-valued field.
Falsy(v) == v = Undefined \/ v = Null
FalsyNumber(n) == n = <<>> \/ n = <<0>>

NoOrder == [exists |-> FALSE]

VARIABLES
    orders,         \* db.collection("orders"): document per merchantOrderId
    clock,          \* FieldValue.serverTimestamp() source
    pc,             \* position of each request's handler
    kind,           \* which endpoint a request went to
    local,          \* merchantOrderId held by a handler across its awaits
    resp,           \* HTTP status sent for a request (0: none yet)
    initiateCalls,  \* phonepeClient.pay calls made, per merchantOrderId
    statusCalls,    \* phonepeClient.getOrderStatus calls made, per id
    userMails       \* confirmation mails sgMail.send accepted, per order

vars == <<orders, clock, pc, kind, local, resp, initiateCalls, statusCalls,
          userMails>>

Init ==
    /\ orders = [o \in OrderIds |-> NoOrder]
    /\ clock = 0
    /\ pc = [r \in Reqs |-> "idle"]
    /\ kind = [r \in Reqs |-> "none"]
    /\ local = [r \in Reqs |-> Undefined]
    /\ resp = [r \in Reqs |-> 0]
    /\ initiateCalls = [o \in OrderIds |-> 0]
    /\ statusCalls = [o \in OrderIds |-> 0]
    /\ userMails = [o \in OrderIds |-> 0]

\* Requests are served in the order of their numbers (they are
\* interchangeable, so this only removes permutations of one behaviour).
CanArrive(r) == pc[r] = "idle" /\ (IF r = 1 THEN TRUE ELSE pc[r - 1] # "idle")

\* The handler of r ends with HTTP status code.
Finish(r, k, code) ==
    /\ pc' = [pc EXCEPT ![r] = "done"]
    /\ kind' = [kind EXCEPT ![r] = k]
    /\ local' = [local EXCEPT ![r] = Undefined]
    /\ resp' = [resp EXCEPT ![r] = code]

\* The handler of r goes on at position p, holding merchantOrderId id.
Continue(r, k, p, id) ==
    /\ pc' = [pc EXCEPT ![r] = p]
    /\ kind' = [kind EXCEPT ![r] = k]
    /\ local' = [local EXCEPT ![r] = id]
    /\ UNCHANGED resp

----------------------------------------------------------------------------
\* POST /api/pay

\* The `if` of line 139.
MissingPaymentData(body) ==
    \/ FalsyNumber(body.amount)
    \/ Falsy(body.products)
    \/ Falsy(body.shippingDetails)
    \/ Falsy(body.userId)

\* The document of lines 147-155.
NewOrder(id, body, now) ==
    [exists |-> TRUE,
     merchantOrderId |-> id,
     userId |-> body.userId,
     amount |-> body.amount[1],
     products |-> body.products,
     shippingDetails |-> body.shippingDetails,
     status |-> "PENDING",
     createdAt |-> now,
     merchantTransactionId |-> Undefined,
     phonepeTransactionId |-> Undefined,
     paymentState |-> Undefined]

\* PayRequest that goes to the gateway before the document is written.
PayRequestInitiatesFirst(r, body, id) ==
    /\ CanArrive(r)
    /\ IF MissingPaymentData(body)
       THEN Finish(r, "pay", 400)
       ELSE Continue(r, "pay", "pay_persisted", id)
    /\ UNCHANGED <<orders, clock, initiateCalls, statusCalls, userMails>>

\* Lines 137-155 for request body `body` and generated id `id`:
\* validation, then doc(id).set(...).
PayRequest(r, body, id) ==
    /\ CanArrive(r)
    /\ IF MissingPaymentData(body)
       THEN /\ Finish(r, "pay", 400)
            /\ UNCHANGED <<orders, clock>>
       ELSE /\ orders' = [orders EXCEPT ![id] = NewOrder(id, body, clock + 1)]
            /\ clock' = clock + 1
            /\ Continue(r, "pay", "pay_persisted", id)
    /\ UNCHANGED <<initiateCalls, statusCalls, userMails>>

PayReceive(r) ==
    /\ CanArrive(r)
    /\ \E body \in PayBodies, id \in GeneratedIds(orders) :
          PayRequest(r, body, id)

\* What phonepeClient.pay can do: throw, resolve to nothing, resolve to a
\* response without orderId, resolve to a response with orderId.
PayOutcomes == {"throws", "no-response", "no-orderId"} \cup Handles

\* StoreHandle done with set() of the creation document plus the handle:
\* what a signal wrote in the meantime is lost.
StoreHandleRewritesDocument(o, handle) ==
    [o EXCEPT !.merchantTransactionId = handle,
              !.status = "PENDING",
              !.phonepeTransactionId = Undefined,
              !.paymentState = Undefined]

\* Lines 170-172: update({merchantTransactionId}).
StoreHandle(o, handle) == [o EXCEPT !.merchantTransactionId = handle]

\* PayResult with a rollback: a failed initiate call deletes the document.
PayResultRollsBack(r, out) ==
    /\ pc[r] = "pay_persisted"
    /\ LET id == local[r] IN
       /\ initiateCalls' = [initiateCalls EXCEPT ![id] = @ + 1]
       /\ CASE out \in {"throws", "no-response"} ->
                    /\ Finish(r, "pay", 500)
                    /\ orders' = [orders EXCEPT ![id] = NoOrder]
              [] out = "no-orderId" ->
                    /\ Finish(r, "pay", 200)
                    /\ UNCHANGED orders
              [] OTHER ->
                    IF orders[id].exists
                    THEN /\ orders' = [orders EXCEPT ![id] = StoreHandle(@, out)]
                         /\ Finish(r, "pay", 200)
                    ELSE /\ Finish(r, "pay", 500)
                         /\ UNCHANGED orders
    /\ UNCHANGED <<clock, statusCalls, userMails>>

\* Lines 157-179 when phonepeClient.pay does `out`: the handle update and
\* the response.  A throw, and the read of response.redirectUrl when there
\* is no response, end in the catch of line 176.
PayResult(r, out) ==
    /\ pc[r] = "pay_persisted"
    /\ LET id == local[r] IN
       /\ initiateCalls' = [initiateCalls EXCEPT ![id] = @ + 1]
       /\ CASE out \in {"throws", "no-response"} ->
                    /\ Finish(r, "pay", 500)
                    /\ UNCHANGED orders
              [] out = "no-orderId" ->
                    /\ Finish(r, "pay", 200)
                    /\ UNCHANGED orders
              [] OTHER ->
                    IF orders[id].exists
                    THEN /\ orders' = [orders EXCEPT ![id] = StoreHandle(@, out)]
                         /\ Finish(r, "pay", 200)
                    ELSE /\ Finish(r, "pay", 500)
                         /\ UNCHANGED orders
    /\ UNCHANGED <<clock, statusCalls, userMails>>

PayInitiate(r) ==
    /\ pc[r] = "pay_persisted"
    /\ \E out \in PayOutcomes : PayResult(r, out)

----------------------------------------------------------------------------
\* POST /api/callback

\* The `code` the gateway sends along with `success`.
CallbackCode(success) ==
    IF success THEN "PAYMENT_SUCCESS" ELSE "PAYMENT_ERROR"

\* What JSON.parse(Buffer.from(body.response, "base64")) yields when the
\* body decodes (line 195); transactionId may be left out of the payload.
DecodedResponses ==
    {[success |-> s, code |-> CallbackCode(s), merchantOrderId |-> id,
      transactionId |-> t] :
        s \in BOOLEAN, id \in OrderIds, t \in TxnIds \cup {Undefined}}

\* req.body of a callback: none, one whose `response` does not decode, or a
\* decodable one.
CallbackBodies == {[shape |-> "none"], [shape |-> "malformed"]}
    \cup {[shape |-> "decodable", decoded |-> d] : d \in DecodedResponses}

\* The `if` of line 191.
InvalidCallback(body, xVerifyHeader) ==
    body.shape = "none" \/ Falsy(xVerifyHeader)

\* Lines 201-205: update({status, phonepeTransactionId, paymentState}).
CallbackSuccessUpdate(o, d) ==
    [o EXCEPT !.status = "COMPLETED",
              !.phonepeTransactionId = d.transactionId,
              !.paymentState = d.code]

\* Line 240: update({status, paymentState}).
CallbackFailureUpdate(o, d) ==
    [o EXCEPT !.status = "FAILED", !.paymentState = d.code]

\* CallbackRequest without the x-verify test of line 191.
CallbackRequestSkipsHeaderCheck(r, body, xVerifyHeader) ==
    /\ CanArrive(r)
    /\ CASE body.shape = "none" ->
                /\ Finish(r, "callback", 400)
                /\ UNCHANGED orders
          [] body.shape = "malformed" ->
                /\ Finish(r, "callback", 500)
                /\ UNCHANGED orders
          [] OTHER ->
                LET d == body.decoded
                    id == d.merchantOrderId
                IN  IF d.success
                    THEN IF d.transactionId = Undefined \/ ~orders[id].exists
                         THEN /\ Finish(r, "callback", 500)
                              /\ UNCHANGED orders
                         ELSE /\ orders' = [orders EXCEPT ![id] =
                                                CallbackSuccessUpdate(@, d)]
                              /\ Continue(r, "callback", "cb_updated", id)
                    ELSE IF ~orders[id].exists
                         THEN /\ Finish(r, "callback", 500)
                              /\ UNCHANGED orders
                         ELSE /\ orders' = [orders EXCEPT ![id] =
                                                CallbackFailureUpdate(@, d)]
                              /\ Finish(r, "callback", 200)
    /\ UNCHANGED <<clock, initiateCalls, statusCalls, userMails>>

\* Lines 188-205 and 240-247 for one request: checks, decoding and the
\* status update.  DocumentReference.update rejects when the document does
\* not exist and when a field value is undefined; both end in the catch of
\* line 244, as does a body that does not decode.
CallbackRequest(r, body, xVerifyHeader) ==
    /\ CanArrive(r)
    /\ CASE InvalidCallback(body, xVerifyHeader) ->
                /\ Finish(r, "callback", 400)
                /\ UNCHANGED orders
          [] ~InvalidCallback(body, xVerifyHeader) /\ body.shape = "malformed" ->
                /\ Finish(r, "callback", 500)
                /\ UNCHANGED orders
          [] OTHER ->
                LET d == body.decoded
                    id == d.merchantOrderId
                IN  IF d.success
                    THEN IF d.transactionId = Undefined \/ ~orders[id].exists
                         THEN /\ Finish(r, "callback", 500)
                              /\ UNCHANGED orders
                         ELSE /\ orders' = [orders EXCEPT ![id] =
                                                CallbackSuccessUpdate(@, d)]
                              /\ Continue(r, "callback", "cb_updated", id)
                    ELSE IF ~orders[id].exists
                         THEN /\ Finish(r, "callback", 500)
                              /\ UNCHANGED orders
                         ELSE /\ orders' = [orders EXCEPT ![id] =
                                                CallbackFailureUpdate(@, d)]
                              /\ Finish(r, "callback", 200)
    /\ UNCHANGED <<clock, initiateCalls, statusCalls, userMails>>

XVerifyHeaders == {Undefined, "sig"}

CallbackReceive(r) ==
    /\ CanArrive(r)
    /\ \E body \in CallbackBodies, xVerifyHeader \in XVerifyHeaders :
          CallbackRequest(r, body, xVerifyHeader)

\* What the sgMail.send of lines 216-221 can do.  The admin mail of lines
\* 225-232 follows a sent confirmation; whether it is sent or throws, the
\* handler goes on to line 243 alike.
MailOutcomes == {"send-throws", "sent"}

\* CallbackMail without the inner try/catch: a throw of sgMail.send reaches
\* the catch of line 244.
CallbackMailThrowEscapes(r, out) ==
    /\ pc[r] = "cb_updated"
    /\ LET id == local[r]
           orderData == orders[id]
       IN  IF orderData.exists /\ ~Falsy(Email(orderData.shippingDetails))
           THEN /\ userMails' = [userMails EXCEPT ![id] =
                                     IF out = "sent" THEN @ + 1 ELSE @]
                /\ Finish(r, "callback", IF out = "sent" THEN 200 ELSE 500)
           ELSE /\ UNCHANGED userMails
                /\ Finish(r, "callback", 200)
    /\ UNCHANGED <<orders, clock, initiateCalls, statusCalls>>

\* Lines 208-243 when sgMail.send does `out`: re-read the order, send the
\* mails if the order has an e-mail address, answer 200.  A throw of
\* sgMail.send is caught at line 236.
CallbackMail(r, out) ==
    /\ pc[r] = "cb_updated"
    /\ LET id == local[r]
           orderData == orders[id]
       IN  IF orderData.exists /\ ~Falsy(Email(orderData.shippingDetails))
           THEN userMails' = [userMails EXCEPT ![id] =
                                 IF out = "sent" THEN @ + 1 ELSE @]
           ELSE UNCHANGED userMails
    /\ Finish(r, "callback", 200)
    /\ UNCHANGED <<orders, clock, initiateCalls, statusCalls>>

CallbackNotify(r) ==
    /\ pc[r] = "cb_updated"
    /\ \E out \in MailOutcomes : CallbackMail(r, out)

----------------------------------------------------------------------------
\* GET /api/payment/status/:merchantOrderId

\* What phonepeClient.getOrderStatus can do: throw, resolve to a response
\* without `state`, or resolve to a state with or without payment details.
StatusResponses ==
    {[shape |-> "throws"], [shape |-> "no-state"]}
    \cup {[shape |-> "state", state |-> s, transactionId |-> t] :
            s \in GatewayStates, t \in TxnIds \cup {Undefined}}

\* StatusUpdate done with set() instead of update(): the fields that are
\* not written are lost.
StatusUpdateReplacesDocument(o, statusResponse) ==
    [o EXCEPT !.status = statusResponse.state,
              !.paymentState = statusResponse.state,
              !.phonepeTransactionId =
                  IF Falsy(statusResponse.transactionId)
                  THEN Null ELSE statusResponse.transactionId,
              !.userId = Undefined,
              !.products = Undefined,
              !.shippingDetails = Undefined]

\* Lines 261-265: update({status, paymentState, phonepeTransactionId}).
StatusUpdate(o, statusResponse) ==
    [o EXCEPT !.status = statusResponse.state,
              !.paymentState = statusResponse.state,
              !.phonepeTransactionId =
                  IF Falsy(statusResponse.transactionId)
                  THEN Null ELSE statusResponse.transactionId]

\* StatusRequest taking a failed gateway call for a failed payment.
StatusRequestMarksFailed(r, id, statusResponse) ==
    /\ CanArrive(r)
    /\ statusCalls' = [statusCalls EXCEPT ![id] = @ + 1]
    /\ IF ~orders[id].exists
       THEN /\ Finish(r, "status", 500)
            /\ UNCHANGED orders
       ELSE IF statusResponse.shape \in {"throws", "no-state"}
       THEN /\ orders' = [orders EXCEPT ![id].status = "FAILED"]
            /\ Finish(r, "status", 500)
       ELSE /\ orders' = [orders EXCEPT ![id] = StatusUpdate(@, statusResponse)]
            /\ Continue(r, "status", "st_updated", id)
    /\ UNCHANGED <<clock, initiateCalls, userMails>>

\* Lines 255-265 and 268-274 for order id `id` when getOrderStatus does
\* `statusResponse`: the gateway call and the update.  The update rejects
\* when the document does not exist (catch of line 271).
StatusRequest(r, id, statusResponse) ==
    /\ CanArrive(r)
    /\ statusCalls' = [statusCalls EXCEPT ![id] = @ + 1]
    /\ IF statusResponse.shape \in {"throws", "no-state"}
          \/ ~orders[id].exists
       THEN /\ Finish(r, "status", 500)
            /\ UNCHANGED orders
       ELSE /\ orders' = [orders EXCEPT ![id] = StatusUpdate(@, statusResponse)]
            /\ Continue(r, "status", "st_updated", id)
    /\ UNCHANGED <<clock, initiateCalls, userMails>>

StatusQuery(r) ==
    /\ CanArrive(r)
    /\ \E id \in OrderIds, statusResponse \in StatusResponses :
          StatusRequest(r, id, statusResponse)

\* Lines 266-267: re-read the order and answer with it.
StatusRespond(r) ==
    /\ pc[r] = "st_updated"
    /\ IF orders[local[r]].exists
       THEN Finish(r, "status", 200)
       ELSE Finish(r, "status", 500)
    /\ UNCHANGED <<orders, clock, initiateCalls, statusCalls, userMails>>

----------------------------------------------------------------------------
Next ==
    \E r \in Reqs :
        \/ PayReceive(r)
        \/ PayInitiate(r)
        \/ CallbackReceive(r)
        \/ CallbackNotify(r)
        \/ StatusQuery(r)
        \/ StatusRespond(r)

Spec == Init /\ [][Next]_vars
----------------------------------------------------------------------------
\* Properties of the order lifecycle

\* A transaction id that is set and not null.
Present(t) == t # Undefined /\ t # Null

HasHandle(o) == o.exists /\ o.merchantTransactionId # Undefined

\* An order in one of the two final statuses.
Terminal(o) == o.exists /\ o.status \in {"COMPLETED", "FAILED"}

\* The step is taken by a callback handler or a status-query handler.
SignalStep ==
    \E r \in Reqs : pc'[r] # pc[r] /\ kind'[r] \in {"callback", "status"}

\* Request r is the only one that has arrived so far.
Alone(r) == \A q \in Reqs \ {r} : pc[q] = "idle"

\* C1: for every order, a callback or status-query step changes the stored
\* status only from PENDING to COMPLETED or from PENDING to FAILED; a status
\* that is COMPLETED or FAILED is never changed by such a step.
C1_StatusLeavesOnlyPending ==
    [][\A id \in OrderIds :
          (SignalStep /\ orders[id].exists
             /\ orders'[id].status # orders[id].status)
          => /\ orders[id].status = "PENDING"
             /\ orders'[id].status \in {"COMPLETED", "FAILED"}]_vars

\* C2: an order that was created once gets at most one customer
\* confirmation, however many success callbacks arrive for it.
C2_OneConfirmationPerOrder ==
    clock <= 1 => \A id \in OrderIds : userMails[id] <= 1

\* C3: once an order is COMPLETED or FAILED, a further callback or status
\* query leaves both its status and its phonepeTransactionId as they were
\* (the signal committed first wins).
C3_FirstTerminalSignalWins ==
    [][\A id \in OrderIds :
          (SignalStep /\ Terminal(orders[id]))
          => /\ orders'[id].status = orders[id].status
             /\ orders'[id].phonepeTransactionId
                    = orders[id].phonepeTransactionId]_vars

\* C4: in every state, a stored order has a phonepeTransactionId that is
\* set and non-null exactly when its status is COMPLETED.
C4_TransactionIdIffCompleted ==
    \A id \in OrderIds :
        orders[id].exists =>
            (Present(orders[id].phonepeTransactionId)
                <=> orders[id].status = "COMPLETED")

\* C5: no getOrderStatus call is made for an order whose stored status is
\* already COMPLETED or FAILED.
C5_NoGatewayCallOnTerminalOrder ==
    [][\A id \in OrderIds :
          statusCalls'[id] # statusCalls[id] => ~Terminal(orders[id])]_vars

\* C6: a callback with a signature header and a decodable payload that
\* names an order id with no document leaves the store unchanged and is
\* answered 200.
C6_UnknownOrderCallbackAnswered2xx ==
    [][\A r \in Reqs, d \in DecodedResponses :
          (/\ ~orders[d.merchantOrderId].exists
           /\ CallbackRequest(r, [shape |-> "decodable", decoded |-> d], "sig"))
          => orders' = orders /\ resp'[r] = 200]_vars

\* The requests C7 calls invalid: a field is missing, or amount is zero or
\* negative.
MissingOrNotPositive(body) ==
    \/ body.amount = <<>>
    \/ body.products = Undefined
    \/ body.shippingDetails = Undefined
    \/ body.userId = Undefined
    \/ (body.amount # <<>> /\ body.amount[1] <= 0)

\* C7: a create-order request with a missing field or a non-positive amount
\* is answered 400 at once, writes nothing to the store and never reaches
\* the phonepeClient.pay call.
C7_InvalidCreateRejected ==
    [][\A r \in Reqs, body \in PayBodies, id \in OrderIds :
          (MissingOrNotPositive(body) /\ PayRequest(r, body, id))
          => /\ resp'[r] = 400
             /\ pc'[r] = "done"
             /\ orders' = orders]_vars

\* C8: when phonepeClient.pay fails (throws, or resolves to no response),
\* the handler writes nothing more to the store: the persisted document is
\* still there, the caller gets 500, and when no other request has touched
\* the order it is PENDING without a gateway handle.
C8_FailedInitiateKeepsPendingOrder ==
    [][\A r \in Reqs, out \in {"throws", "no-response"} :
          PayResult(r, out)
          => /\ orders' = orders
             /\ orders'[local[r]].exists
             /\ resp'[r] = 500
             /\ Alone(r) =>
                  /\ orders'[local[r]].status = "PENDING"
                  /\ orders'[local[r]].merchantTransactionId = Undefined]_vars

\* C8 witness: the first request was a create whose initiate call failed;
\* its order is stored, PENDING, without a handle.
C8_Witness ==
    /\ kind[1] = "pay" /\ pc[1] = "done" /\ resp[1] = 500
    /\ Alone(1)
    /\ initiateCalls["M-a"] = 1
    /\ orders["M-a"].exists
    /\ orders["M-a"].status = "PENDING"
    /\ orders["M-a"].merchantTransactionId = Undefined

\* C9: for a stored order, a getOrderStatus call is made only when its
\* gateway handle (merchantTransactionId) has been stored; a status query of
\* an order without a handle makes no call and leaves the document alone.
C9_NoGatewayCallWithoutHandle ==
    [][\A id \in OrderIds :
          (orders[id].exists /\ ~HasHandle(orders[id]))
          => statusCalls'[id] = statusCalls[id]]_vars

\* C10: when getOrderStatus throws or returns a response without a state,
\* the status query leaves every order document as it was and answers 500.
C10_FailedQueryLeavesOrder ==
    [][\A r \in Reqs :
          (CanArrive(r) /\ kind'[r] = "status") =>
            \A id \in OrderIds,
               statusResponse \in {[shape |-> "throws"], [shape |-> "no-state"]} :
               StatusRequest(r, id, statusResponse)
               => orders' = orders /\ resp'[r] = 500 /\ pc'[r] = "done"]_vars

\* C10 witness: a create was answered 200, then a status query of its order
\* was answered 500 (the document existed, so the gateway call had failed),
\* and the order is still PENDING.
C10_Witness ==
    /\ kind[1] = "pay" /\ resp[1] = 200
    /\ kind[2] = "status" /\ pc[2] = "done" /\ resp[2] = 500
    /\ pc[3] = "idle"
    /\ statusCalls["M-a"] = 1 /\ statusCalls["M-b"] = 0
    /\ orders["M-a"].exists
    /\ orders["M-a"].status = "PENDING"

\* C11: a callback without the x-verify header, or with a body that is
\* absent or does not decode, is answered with an error (400 or 500) at
\* once; no order document changes and no mail is sent.  Stated per step
\* that serves a callback: either the step is such a rejection, or no
\* invalid request can have produced it.
C11_InvalidCallbackRejected ==
    [][\A r \in Reqs :
          (CanArrive(r) /\ kind'[r] = "callback") =>
            \/ /\ orders' = orders
               /\ userMails' = userMails
               /\ pc'[r] = "done"
               /\ resp'[r] \in {400, 500}
            \/ \A body \in CallbackBodies, xVerifyHeader \in XVerifyHeaders :
                  (xVerifyHeader = Undefined \/ body.shape # "decodable")
                  => ~CallbackRequest(r, body, xVerifyHeader)]_vars

\* C11 witness: after a create stored order M-a, a callback was answered
\* 400 (only the check of line 191 answers 400) and M-a is as created.
C11_Witness ==
    /\ kind[1] = "pay" /\ pc[1] = "pay_persisted"
    /\ kind[2] = "callback" /\ pc[2] = "done" /\ resp[2] = 400
    /\ orders["M-a"].exists
    /\ orders["M-a"].status = "PENDING"
    /\ userMails["M-a"] = 0

\* C12: a create-order request never writes over a stored order: the id it
\* generates is one no document has, so the document of an earlier create
\* is not replaced.
C12_CreateNeverOverwrites ==
    [][\A r \in Reqs, body \in PayBodies, id \in OrderIds :
          (orders[id].exists /\ PayRequest(r, body, id))
          => orders'[id] = orders[id]]_vars

\* C13: a status query of a PENDING order to which the gateway answers
\* PENDING leaves the stored status PENDING, records no transaction id and
\* sends no mail.
C13_StillPendingIsNoTransition ==
    [][\A r \in Reqs, id \in OrderIds, t \in TxnIds \cup {Undefined} :
          (/\ orders[id].exists
           /\ orders[id].status = "PENDING"
           /\ StatusRequest(r, id, [shape |-> "state", state |-> "PENDING",
                                    transactionId |-> t]))
          => /\ orders'[id].status = "PENDING"
             /\ ~Present(orders'[id].phonepeTransactionId)
             /\ userMails' = userMails]_vars

\* The signals about one payment that agree that it succeeded with
\* transaction id t: a success callback, a poll that sees COMPLETED, and a
\* poll that sees the payment still PENDING.
AgreeingSignals(t) ==
    {[via |-> "callback", state |-> "COMPLETED", transactionId |-> t],
     [via |-> "status", state |-> "COMPLETED", transactionId |-> t],
     [via |-> "status", state |-> "PENDING", transactionId |-> Undefined]}

\* The write the handler of signal sig makes to order document o.
ApplySignal(o, sig) ==
    IF sig.via = "callback"
    THEN CallbackSuccessUpdate(o, [success |-> TRUE,
                                   code |-> CallbackCode(TRUE),
                                   merchantOrderId |-> o.merchantOrderId,
                                   transactionId |-> sig.transactionId])
    ELSE StatusUpdate(o, [shape |-> "state", state |-> sig.state,
                          transactionId |-> sig.transactionId])

\* C14: for a stored order and two agreeing signals about it, delivering
\* them in either order ends in the same status and the same
\* phonepeTransactionId.
C14_DeliveryOrderDoesNotMatter ==
    \A id \in OrderIds :
        orders[id].exists =>
            \A t \in TxnIds : \A s1, s2 \in AgreeingSignals(t) :
                LET a == ApplySignal(ApplySignal(orders[id], s1), s2)
                    b == ApplySignal(ApplySignal(orders[id], s2), s1)
                IN  /\ a.status = b.status
                    /\ a.phonepeTransactionId = b.phonepeTransactionId

\* Handler r has the mail block of lines 208-238 ahead of it: the only
\* place a confirmation is sent from.
MailBlockAhead(r) == pc[r] = "cb_updated"

\* Request r takes the step.
StepOf(r) == pc'[r] # pc[r]

\* C15: whichever handler moves an order (with an e-mail address) to
\* COMPLETED goes on to send the confirmation, and a handler that moves an
\* order to FAILED sends none.
C15_CompletionTriggersConfirmation ==
    [][\A r \in Reqs, id \in OrderIds :
          (StepOf(r) /\ orders[id].exists
             /\ orders'[id].status # orders[id].status)
          => /\ (orders'[id].status = "COMPLETED"
                   /\ ~Falsy(Email(orders[id].shippingDetails)))
                => MailBlockAhead(r)'
             /\ orders'[id].status = "FAILED"
                => (~MailBlockAhead(r)' /\ userMails' = userMails)]_vars

\* C16: when sgMail.send throws after the order was moved to COMPLETED, the
\* callback handler writes nothing to the store (the status write is not
\* undone), sends nothing more and ends with a 200 answer.
C16_FailedSendKeepsCompleted ==
    [][\A r \in Reqs :
          CallbackMail(r, "send-throws")
          => /\ orders' = orders
             /\ userMails' = userMails
             /\ pc'[r] = "done"
             /\ resp'[r] = 200]_vars

\* C16 witness: the only callback for order M-a (which has an e-mail
\* address) was answered 200 and no mail went out, so its send threw; the
\* order is COMPLETED with its transaction id.
C16_Witness ==
    /\ kind[1] = "pay" /\ pc[1] = "pay_persisted"
    /\ kind[2] = "callback" /\ pc[2] = "done" /\ resp[2] = 200
    /\ pc[3] = "idle"
    /\ orders["M-a"].exists
    /\ ~Falsy(Email(orders["M-a"].shippingDetails))
    /\ orders["M-a"].status = "COMPLETED"
    /\ Present(orders["M-a"].phonepeTransactionId)
    /\ userMails["M-a"] = 0

\* C17: whenever a create-order handler is at, or past, its
\* phonepeClient.pay call for an id, a document for that id is stored; and
\* as long as nothing else has arrived, that document is PENDING without a
\* gateway handle while the call is outstanding.
C17_PersistedBeforeInitiate ==
    /\ \A r \in Reqs :
          pc[r] = "pay_persisted" =>
            /\ orders[local[r]].exists
            /\ Alone(r) =>
                 /\ orders[local[r]].status = "PENDING"
                 /\ orders[local[r]].merchantTransactionId = Undefined
    /\ \A id \in OrderIds : initiateCalls[id] > 0 => orders[id].exists

\* C17 witness: a create has written its document and its initiate call
\* has not come back yet.
C17_Witness ==
    /\ pc[1] = "pay_persisted" /\ local[1] = "M-a" /\ Alone(1)
    /\ initiateCalls["M-a"] = 0
    /\ orders["M-a"].exists
    /\ orders["M-a"].status = "PENDING"
    /\ orders["M-a"].merchantTransactionId = Undefined

\* The fields of an order that are fixed at creation.
CreationFields(o) ==
    <<o.merchantOrderId, o.userId, o.amount, o.products, o.shippingDetails,
      o.createdAt>>

\* C18: a callback or status-query step deletes no order document and
\* creates none, leaves merchantOrderId, userId, amount, products,
\* shippingDetails and createdAt of every order as they were, and changes
\* at most one order document.
C18_SignalsKeepCreationFields ==
    [][SignalStep =>
          /\ \A id \in OrderIds :
                /\ orders'[id].exists = orders[id].exists
                /\ orders[id].exists =>
                     CreationFields(orders'[id]) = CreationFields(orders[id])
          /\ \A id1, id2 \in OrderIds :
                (orders'[id1] # orders[id1] /\ orders'[id2] # orders[id2])
                => id1 = id2]_vars

\* C18 witness: two orders are stored and a status query has just written
\* to M-a; M-a has its creation fields and M-b is as created.
C18_Witness ==
    /\ kind[1] = "pay" /\ kind[2] = "pay"
    /\ kind[3] = "status" /\ pc[3] = "st_updated" /\ local[3] = "M-a"
    /\ orders["M-a"].exists /\ orders["M-b"].exists
    /\ orders["M-a"].paymentState = "COMPLETED"
    /\ orders["M-a"].userId = "u1" /\ orders["M-a"].createdAt = 1
    /\ orders["M-b"].paymentState = Undefined
    /\ orders["M-b"].createdAt = 2

\* C19: once an order has a gateway handle (merchantTransactionId), no
\* step of any handler changes or clears it.
C19_HandleWrittenOnce ==
    [][\A id \in OrderIds :
          HasHandle(orders[id])
          => /\ orders'[id].exists
             /\ orders'[id].merchantTransactionId
                    = orders[id].merchantTransactionId]_vars

\* C20: the write that stores the gateway handle changes nothing but
\* merchantTransactionId of the one order; in particular a status and a
\* transaction id that a callback or poll wrote while the initiate call was
\* in flight stay as they are.
C20_HandleWriteTouchesOnlyHandle ==
    [][\A r \in Reqs, handle \in Handles :
          PayResult(r, handle)
          => LET id == local[r] IN
             /\ \A other \in OrderIds \ {id} : orders'[other] = orders[other]
             /\ orders'[id].merchantTransactionId = handle
             /\ [orders'[id] EXCEPT !.merchantTransactionId =
                     orders[id].merchantTransactionId] = orders[id]
             /\ orders'[id].status = orders[id].status
             /\ orders'[id].phonepeTransactionId
                    = orders[id].phonepeTransactionId]_vars

\* C20 witness: one create and one success callback for its order, and the
\* create has stored its handle: the order is COMPLETED with its
\* transaction id and has the handle.
C20_Witness ==
    /\ kind[1] = "pay" /\ pc[1] = "done" /\ resp[1] = 200
    /\ kind[2] = "callback" /\ pc[2] = "cb_updated" /\ local[2] = "M-a"
    /\ pc[3] = "idle"
    /\ orders["M-a"].merchantTransactionId = "H1"
    /\ orders["M-a"].status = "COMPLETED"
    /\ Present(orders["M-a"].phonepeTransactionId)
====
